---- MODULE Spec2Model ----
(***************************************************************************)
(* Retail POS (src/script.js, class RetailPOS): catalog, cart, checkout,   *)
(* sale ledger, product maintenance, login/logout and localStorage         *)
(* persistence, as a state machine with one action per method.             *)
(*                                                                         *)
(* Money is kept in thousandths of a currency unit so that the code's      *)
(* "* 0.1" and "* (value / 100)" are exact on integer prices; IEEE         *)
(* rounding of the JavaScript doubles is not modelled.                     *)
(* Product fields no modelled method reads (category, barcode,             *)
(* description, quickKey) are left out of the product record, and so are   *)
(* the user fields name, email and createdAt. Of this.settings the shop    *)
(* name and address are kept (the other shop fields are handled like the   *)
(* address; the invoice and appearance groups are written by other forms). *)
(***************************************************************************)
EXTENDS Integers, Sequences, FiniteSets, TLC

VARIABLES
    products,       \* this.products: sequence of [id, name, price, stock]
    cart,           \* this.cart: sequence of [id, name, price, quantity]
    sales,          \* this.sales: the ledger
    discount,       \* this.discount: [type, value, code]
    taxEnabled,     \* the #taxEnabled checkbox
    currentEditId,  \* this.currentEditId (0 models null)
    users,          \* this.users
    currentUser,    \* this.currentUser (None or Some(user))
    isLoggedIn,     \* this.isLoggedIn
    listening,      \* setupEventListeners has run in this page instance
    storage,        \* localStorage: products, sales, users, settings,
                    \* currentUser, loginTime
    settings,       \* this.settings: [shop |-> [name, address]]
    loginListeners, \* submit listeners attached to the login form
    eventListeners, \* times setupEventListeners attached its listeners
    autoSaveTimers, \* running setInterval timers of startAutoSave
    now,            \* the wall clock read by Date.now() / new Date()
    returned,       \* the value the last report method produced (bookkeeping)
    steps,          \* number of method calls so far (bookkeeping)
    lastOp          \* the method that ran last and how it ended (bookkeeping)

vars == <<products, cart, sales, discount, taxEnabled, currentEditId, users,
          currentUser, isLoggedIn, listening, storage, settings,
          loginListeners, eventListeners, autoSaveTimers, now, returned,
          steps, lastOp>>

----------------------------------------------------------------------------
\* Bounds of the model.

MaxSteps == 6       \* method calls explored from the first page load
Epoch == 100        \* first clock reading (any value above the sample ids)

\* Fixed-point unit of the money amounts.
Milli == 1000

None == <<>>
Some(x) == <<x>>

Min(a, b) == IF a < b THEN a ELSE b

----------------------------------------------------------------------------
\* Inputs.

\* addSampleProducts: the sample catalog (its first product; the other seven
\* have ids 2..8 and differ only in name, price and stock).
SampleProducts ==
    << [id |-> 1, name |-> "Laptop", price |-> 74999, stock |-> 10] >>

\* Text typed into the product form. parseFloat / parseInt of "" is NaN.
NameInputs == {"", "Pen"}
CategoryInputs == {"", "Other"}
PriceInputs == {"", "-5", "10"}
StockInputs == {"", "1"}

IsNaNText(s) == s = ""

ParseNumber(s) ==
    CASE s = "-5" -> 0 - 5
      [] s = "0" -> 0
      [] s = "1" -> 1
      [] s = "2" -> 2
      [] s = "10" -> 10
      [] s = "50" -> 50
      [] s = "150" -> 150

ProductForms ==
    [name : NameInputs, category : CategoryInputs,
     price : PriceInputs, stock : StockInputs]

\* Text typed into the discount value field, and the selected type.
DiscountValueInputs == {"", "-5", "50", "150"}
DiscountTypes == {"percentage", "fixed"}

ReorderQuantities == {20}

Customers == {[name |-> "ann", phone |-> ""]}

Credentials == {[username |-> "admin", password |-> "admin123"],
                [username |-> "admin", password |-> "wrong"]}

\* Text typed into the user form: username, password and the selected role.
UserForms ==
    [username : {"bob", "carl"}, password : {"pw"},
     role : {"manager", "cashier"}]

\* Username and password typed into the login form once further users exist.
UserCredentials ==
    Credentials \cup {[username |-> "bob", password |-> "pw"],
                      [username |-> "carl", password |-> "pw"]}

\* Permission strings hasPermission is asked about.
Permissions == {"admin", "manager", "cashier", "superuser", ""}

DefaultAdmin ==
    [id |-> 1, username |-> "admin", password |-> "admin123",
     role |-> "admin", isActive |-> TRUE, lastLogin |-> None]

\* The constructor's this.settings.
DefaultSettings == [shop |-> [name |-> "", address |-> ""]]

\* Text typed into the shop settings form (after trim()).
ShopForms == [name : {"", "Shop"}, address : {"", "Road"}]

NoDiscount == [type |-> "percentage", value |-> 0, code |-> ""]

----------------------------------------------------------------------------
\* Array helpers.

\* Array.prototype.findIndex on the id field, 1-based; 0 when absent.
FindIndex(seq, id) ==
    IF \E i \in 1..Len(seq) : seq[i].id = id
    THEN CHOOSE i \in 1..Len(seq) :
            /\ seq[i].id = id
            /\ \A j \in 1..(i - 1) : seq[j].id # id
    ELSE 0

\* this.x.filter(e => e.id !== id)
WithoutId(seq, id) ==
    LET Keep(e) == e.id # id IN SelectSeq(seq, Keep)

Ids(seq) == {seq[i].id : i \in 1..Len(seq)}

----------------------------------------------------------------------------
\* Pricing, as checkout computes it (amounts in thousandths).

RECURSIVE Subtotal(_)
\* this.cart.reduce((sum, item) => sum + (item.price * item.quantity), 0)
Subtotal(c) ==
    IF c = <<>> THEN 0
    ELSE Head(c).price * Head(c).quantity * Milli + Subtotal(Tail(c))

\* Mutant of DiscountAmount: a fixed discount is not capped at the subtotal.
DiscountAmountUncapped(subtotal, d) ==
    IF d.value > 0
    THEN IF d.type = "percentage"
         THEN (subtotal \div 100) * d.value
         ELSE d.value * Milli
    ELSE 0

DiscountAmount(subtotal, d) ==
    IF d.value > 0
    THEN IF d.type = "percentage"
         THEN (subtotal \div 100) * d.value   \* exact: Milli divides subtotal
         ELSE Min(d.value * Milli, subtotal)
    ELSE 0

TaxOn(discountedSubtotal, enabled) ==
    IF enabled THEN discountedSubtotal \div 10 ELSE 0

\* Mutant of NewSale: the items are read after the cart was cleared.
NewSaleAfterClear(c, d, enabled, customer, t) ==
    LET subtotal == Subtotal(c)
        discountAmount == DiscountAmount(subtotal, d)
        discountedSubtotal == subtotal - discountAmount
        tax == TaxOn(discountedSubtotal, enabled)
    IN  [id |-> t, date |-> t, customer |-> customer, items |-> <<>>,
         subtotal |-> subtotal, discount |-> discountAmount,
         discountType |-> d.type, discountValue |-> d.value,
         tax |-> tax, total |-> discountedSubtotal + tax]

\* Mutant of NewSale: the tax is taken on the subtotal before the discount.
NewSaleTaxBeforeDiscount(c, d, enabled, customer, t) ==
    LET subtotal == Subtotal(c)
        discountAmount == DiscountAmount(subtotal, d)
        discountedSubtotal == subtotal - discountAmount
        tax == TaxOn(subtotal, enabled)
    IN  [id |-> t, date |-> t, customer |-> customer, items |-> c,
         subtotal |-> subtotal, discount |-> discountAmount,
         discountType |-> d.type, discountValue |-> d.value,
         tax |-> tax, total |-> discountedSubtotal + tax]

\* The sale record checkout builds from the cart, the discount and the clock.
NewSale(c, d, enabled, customer, t) ==
    LET subtotal == Subtotal(c)
        discountAmount == DiscountAmount(subtotal, d)
        discountedSubtotal == subtotal - discountAmount
        tax == TaxOn(discountedSubtotal, enabled)
    IN  [id |-> t, date |-> t, customer |-> customer, items |-> c,
         subtotal |-> subtotal, discount |-> discountAmount,
         discountType |-> d.type, discountValue |-> d.value,
         tax |-> tax, total |-> discountedSubtotal + tax]

RECURSIVE UpdateStockByOne(_, _)
\* Mutant of UpdateStock: each line takes one unit, whatever its quantity.
UpdateStockByOne(ps, c) ==
    IF c = <<>> THEN ps
    ELSE LET i == FindIndex(ps, Head(c).id)
         IN  UpdateStockByOne(IF i = 0 THEN ps
                              ELSE [ps EXCEPT ![i].stock = @ - 1],
                              Tail(c))

RECURSIVE UpdateStock(_, _)
\* this.cart.forEach(cartItem => { product = find(...); if (product)
\*     product.stock -= cartItem.quantity })
UpdateStock(ps, c) ==
    IF c = <<>> THEN ps
    ELSE LET i == FindIndex(ps, Head(c).id)
         IN  UpdateStock(IF i = 0 THEN ps
                         ELSE [ps EXCEPT ![i].stock = @ - Head(c).quantity],
                         Tail(c))

\* Mutant of CheckoutRejects: the empty-cart check is missing.
CheckoutRejectsNothing(c) == FALSE

\* checkout's only validation: the cart is empty.
CheckoutRejects(c) == Len(c) = 0

----------------------------------------------------------------------------
\* Persistence.

\* Mutant of SaveData: the sales key is not written.
SaveDataProductsOnly(st, ps, ss) == [st EXCEPT !.products = Some(ps)]

\* saveData: both keys are rewritten from memory. JSON.stringify followed by
\* JSON.parse returns an equal value for every value of this model (finite
\* integers, strings, arrays and records of them).
SaveData(st, ps, ss) ==
    [st EXCEPT !.products = Some(ps), !.sales = Some(ss)]

SaveUsers(st, us) == [st EXCEPT !.users = Some(us)]

\* saveSettings
SaveSettings(st, se) == [st EXCEPT !.settings = Some(se)]

\* loadSettings: { ...this.settings, ...JSON.parse(savedSettings) }; the
\* stored object carries every group, so it replaces the in-memory one.
LoadSettings(mem, st) == IF st.settings # None THEN st.settings[1] ELSE mem

\* saveAllData: saveData, saveUsers, saveSettings and, with a user logged
\* in, the session.
SaveAllData(st, ps, ss, us, se, cu, t) ==
    LET st1 == SaveSettings(SaveUsers(SaveData(st, ps, ss), us), se)
    IN  IF cu # None
        THEN [st1 EXCEPT !.currentUser = cu, !.loginTime = Some(t)]
        ELSE st1

\* loadData: a key that is present replaces the in-memory array.
LoadProducts(mem, st) == IF st.products # None THEN st.products[1] ELSE mem
LoadSales(mem, st) == IF st.sales # None THEN st.sales[1] ELSE mem

\* loadUsers: the stored users, or the default administrator.
LoadUsers(st) == IF st.users # None THEN st.users[1] ELSE << DefaultAdmin >>

SessionHours == 8
HourMs == 1000 * 60 * 60

\* checkLoginStatus: a stored session younger than eight hours is restored.
SessionValid(st, t) ==
    /\ st.currentUser # None
    /\ st.loginTime # None
    /\ t - st.loginTime[1] < SessionHours * HourMs

\* addSampleProducts: an empty catalog is seeded.
Seeded(ps) == IF Len(ps) = 0 THEN SampleProducts ELSE ps

\* init(): the state after it ran on in-memory products ps and sales ss with
\* storage st at time t.
InitResult(ps, ss, wasListening, st, t) ==
    LET us == LoadUsers(st)
        st1 == IF st.users = None THEN SaveUsers(st, us) ELSE st
        valid == SessionValid(st1, t)
        st2 == IF valid THEN st1
               ELSE [st1 EXCEPT !.currentUser = None, !.loginTime = None]
        ps1 == LoadProducts(ps, st2)
        ss1 == LoadSales(ss, st2)
        ps2 == Seeded(ps1)
        st3 == IF Len(ps1) = 0 THEN SaveData(st2, ps2, ss1) ELSE st2
    IN  IF valid
        THEN [products |-> ps2, sales |-> ss1, users |-> us,
              currentUser |-> st2.currentUser, isLoggedIn |-> TRUE,
              listening |-> TRUE, storage |-> st3]
        ELSE [products |-> ps, sales |-> ss, users |-> us,
              currentUser |-> None, isLoggedIn |-> FALSE,
              listening |-> wasListening, storage |-> st2]

EmptyStorage ==
    [products |-> None, sales |-> None, users |-> None, settings |-> None,
     currentUser |-> None, loginTime |-> None]

\* The methods whose last call the model records by name, and the outcomes
\* of other methods it records.
Traced == {"constructor", "checkout", "addUser", "updateUser", "deleteUser"}
TracedOutcomes ==
    {[op |-> "applyDiscount", result |-> "over100"],
     [op |-> "updateQuantity", result |-> "removed"]}

\* Every method call ends here: it is counted and recorded.
Done(op, result) ==
    /\ steps < MaxSteps
    /\ steps' = steps + 1
    /\ lastOp' = IF \/ op \in Traced
                    \/ [op |-> op, result |-> result] \in TracedOutcomes
                 THEN [op |-> op, result |-> result]
                 ELSE [op |-> "other", result |-> ""]

----------------------------------------------------------------------------
\* The first page load, on an empty localStorage: the constructor's defaults
\* and init(), which creates the default administrator and stops at the
\* login modal.
Init ==
    LET r == InitResult(<<>>, <<>>, FALSE, EmptyStorage, Epoch)
    IN  /\ products = r.products
        /\ cart = <<>>
        /\ sales = r.sales
        /\ discount = NoDiscount
        /\ taxEnabled \in BOOLEAN
        /\ currentEditId = 0
        /\ users = r.users
        /\ currentUser = r.currentUser
        /\ isLoggedIn = r.isLoggedIn
        /\ listening = r.listening
        /\ storage = r.storage
        /\ settings = DefaultSettings
        /\ loginListeners = 1
        /\ eventListeners = 0
        /\ autoSaveTimers = 0
        /\ now = Epoch
        /\ returned = None
        /\ steps = 0
        /\ lastOp = [op |-> "constructor", result |-> "login"]

----------------------------------------------------------------------------
\* Cart.

\* Mutant of AddToCart: adding to an existing line refreshes the line's price.
AddToCartRepricing(productId) ==
    LET i == FindIndex(products, productId)
        j == FindIndex(cart, productId)
    IN  /\ listening
        /\ IF i = 0 \/ products[i].stock = 0
           THEN /\ cart' = cart
                /\ Done("addToCart", "unavailable")
           ELSE IF j # 0
           THEN IF cart[j].quantity >= products[i].stock
                THEN /\ cart' = cart
                     /\ Done("addToCart", "insufficient")
                ELSE /\ cart' = [cart EXCEPT ![j].quantity = @ + 1,
                                             ![j].price = products[i].price]
                     /\ Done("addToCart", "ok")
           ELSE /\ cart' = Append(cart, [id |-> products[i].id,
                                         name |-> products[i].name,
                                         price |-> products[i].price,
                                         quantity |-> 1])
                /\ Done("addToCart", "ok")
        /\ UNCHANGED <<products, sales, discount, taxEnabled, currentEditId,
                       users, currentUser, isLoggedIn, listening, storage,
                       now, settings, loginListeners, eventListeners,
                       autoSaveTimers, returned>>

\* addToCart(productId)
AddToCart(productId) ==
    LET i == FindIndex(products, productId)
        j == FindIndex(cart, productId)
    IN  /\ listening
        /\ IF i = 0 \/ products[i].stock = 0
           THEN /\ cart' = cart
                /\ Done("addToCart", "unavailable")
           ELSE IF j # 0
           THEN IF cart[j].quantity >= products[i].stock
                THEN /\ cart' = cart
                     /\ Done("addToCart", "insufficient")
                ELSE /\ cart' = [cart EXCEPT ![j].quantity = @ + 1]
                     /\ Done("addToCart", "ok")
           ELSE /\ cart' = Append(cart, [id |-> products[i].id,
                                         name |-> products[i].name,
                                         price |-> products[i].price,
                                         quantity |-> 1])
                /\ Done("addToCart", "ok")
        /\ UNCHANGED <<products, sales, discount, taxEnabled, currentEditId,
                       users, currentUser, isLoggedIn, listening, storage,
                       now, settings, loginListeners, eventListeners,
                       autoSaveTimers, returned>>

\* Mutant of UpdateQuantity: a line is removed only below quantity 0.
UpdateQuantityKeepsZero(productId, change) ==
    LET j == FindIndex(cart, productId)
        i == FindIndex(products, productId)
        newQuantity == cart[j].quantity + change
    IN  /\ listening
        /\ IF j = 0
           THEN /\ cart' = cart
                /\ Done("updateQuantity", "noline")
           ELSE IF newQuantity < 0
           THEN /\ cart' = WithoutId(cart, productId)
                /\ Done("updateQuantity", "removed")
           ELSE IF i = 0
           THEN /\ cart' = cart
                /\ Done("updateQuantity", "threw")
           ELSE IF newQuantity > products[i].stock
           THEN /\ cart' = cart
                /\ Done("updateQuantity", "insufficient")
           ELSE /\ cart' = [cart EXCEPT ![j].quantity = newQuantity]
                /\ Done("updateQuantity", "ok")
        /\ UNCHANGED <<products, sales, discount, taxEnabled, currentEditId,
                       users, currentUser, isLoggedIn, listening, storage,
                       now, settings, loginListeners, eventListeners,
                       autoSaveTimers, returned>>

\* updateQuantity(productId, change), called with +1 / -1 by the cart buttons.
\* A cart line without a product makes "product.stock" throw: nothing changes.
UpdateQuantity(productId, change) ==
    LET j == FindIndex(cart, productId)
        i == FindIndex(products, productId)
        newQuantity == cart[j].quantity + change
    IN  /\ listening
        /\ IF j = 0
           THEN /\ cart' = cart
                /\ Done("updateQuantity", "noline")
           ELSE IF newQuantity <= 0
           THEN /\ cart' = WithoutId(cart, productId)
                /\ Done("updateQuantity", "removed")
           ELSE IF i = 0
           THEN /\ cart' = cart
                /\ Done("updateQuantity", "threw")
           ELSE IF newQuantity > products[i].stock
           THEN /\ cart' = cart
                /\ Done("updateQuantity", "insufficient")
           ELSE /\ cart' = [cart EXCEPT ![j].quantity = newQuantity]
                /\ Done("updateQuantity", "ok")
        /\ UNCHANGED <<products, sales, discount, taxEnabled, currentEditId,
                       users, currentUser, isLoggedIn, listening, storage,
                       now, settings, loginListeners, eventListeners,
                       autoSaveTimers, returned>>

\* removeFromCart(productId)
RemoveFromCart(productId) ==
    /\ listening
    /\ cart' = WithoutId(cart, productId)
    /\ Done("removeFromCart", "ok")
    /\ UNCHANGED <<products, sales, discount, taxEnabled, currentEditId,
                   users, currentUser, isLoggedIn, listening, storage, now,
                   settings, loginListeners, eventListeners, autoSaveTimers,
                   returned>>

\* Mutant of ApplyDiscount: the check of a percentage above 100 is missing.
ApplyDiscountUnchecked(type, valueText, code) ==
    LET discountValue == IF IsNaNText(valueText) THEN 0
                         ELSE ParseNumber(valueText)
    IN  /\ listening
        /\ IF discountValue <= 0
           THEN /\ discount' = discount
                /\ Done("applyDiscount", "invalid")
           ELSE /\ discount' = [type |-> type, value |-> discountValue,
                                code |-> code]
                /\ Done("applyDiscount", "ok")
        /\ UNCHANGED <<products, cart, sales, taxEnabled, currentEditId,
                       users, currentUser, isLoggedIn, listening, storage,
                       now, settings, loginListeners, eventListeners,
                       autoSaveTimers, returned>>

\* applyDiscount(): parseFloat(text) || 0, then the two validations.
ApplyDiscount(type, valueText, code) ==
    LET discountValue == IF IsNaNText(valueText) THEN 0
                         ELSE ParseNumber(valueText)
    IN  /\ listening
        /\ IF discountValue <= 0
           THEN /\ discount' = discount
                /\ Done("applyDiscount", "invalid")
           ELSE IF type = "percentage" /\ discountValue > 100
           THEN /\ discount' = discount
                /\ Done("applyDiscount", "over100")
           ELSE /\ discount' = [type |-> type, value |-> discountValue,
                                code |-> code]
                /\ Done("applyDiscount", "ok")
        /\ UNCHANGED <<products, cart, sales, taxEnabled, currentEditId,
                       users, currentUser, isLoggedIn, listening, storage,
                       now, settings, loginListeners, eventListeners,
                       autoSaveTimers, returned>>

\* The user ticks or unticks the tax checkbox.
ToggleTax ==
    /\ listening
    /\ taxEnabled' = ~taxEnabled
    /\ Done("toggleTax", "ok")
    /\ UNCHANGED <<products, cart, sales, discount, currentEditId, users,
                   currentUser, isLoggedIn, listening, storage, now, settings,
                   loginListeners, eventListeners, autoSaveTimers, returned>>

----------------------------------------------------------------------------
\* Checkout.

\* checkout(): customer is the text of the two customer fields.
Checkout(customer) ==
    /\ listening
    /\ IF CheckoutRejects(cart)
       THEN /\ UNCHANGED <<products, cart, sales, discount, storage>>
            /\ Done("checkout", "empty")
       ELSE /\ sales' = Append(sales, NewSale(cart, discount, taxEnabled,
                                              customer, now))
            /\ products' = UpdateStock(products, cart)
            /\ storage' = SaveData(storage, products', sales')
            /\ cart' = <<>>
            /\ discount' = NoDiscount
            /\ Done("checkout", "ok")
    /\ UNCHANGED <<taxEnabled, currentEditId, users, currentUser, isLoggedIn,
                   listening, now, settings, loginListeners, eventListeners,
                   autoSaveTimers, returned>>

----------------------------------------------------------------------------
\* Product maintenance.

\* openProductModal(productId): the edit button passes a product id, the
\* "Add Product" button passes null (0).
OpenProductModal(productId) ==
    /\ listening
    /\ currentEditId' = productId
    /\ Done("openProductModal", "ok")
    /\ UNCHANGED <<products, cart, sales, discount, taxEnabled, users,
                   currentUser, isLoggedIn, listening, storage, now, settings,
                   loginListeners, eventListeners, autoSaveTimers, returned>>

\* closeProductModal(): the cancel button.
CloseProductModal ==
    /\ listening
    /\ currentEditId' = 0
    /\ Done("closeProductModal", "ok")
    /\ UNCHANGED <<products, cart, sales, discount, taxEnabled, users,
                   currentUser, isLoggedIn, listening, storage, now, settings,
                   loginListeners, eventListeners, autoSaveTimers, returned>>

\* saveProduct's validation of the form fields.
FormRejected(f) ==
    \/ f.name = ""
    \/ f.category = ""
    \/ IsNaNText(f.price)
    \/ IsNaNText(f.stock)

\* saveProduct's edit branch: the product's fields are overwritten.
EditedProduct(p, f) ==
    [p EXCEPT !.name = f.name,
              !.price = ParseNumber(f.price),
              !.stock = ParseNumber(f.stock)]

\* saveProduct's add branch: the new product's id is the clock reading.
AddedProduct(f, t) ==
    [id |-> t, name |-> f.name, price |-> ParseNumber(f.price),
     stock |-> ParseNumber(f.stock)]

\* saveProduct(): f is the text of the form fields. Editing a product that
\* is no longer in the catalog makes "product.name = name" throw.
SaveProduct(f) ==
    LET i == FindIndex(products, currentEditId)
    IN  /\ listening
        /\ IF FormRejected(f)
           THEN /\ UNCHANGED <<products, currentEditId, storage>>
                /\ Done("saveProduct", "invalid")
           ELSE IF currentEditId # 0 /\ i = 0
           THEN /\ UNCHANGED <<products, currentEditId, storage>>
                /\ Done("saveProduct", "threw")
           ELSE IF currentEditId # 0
           THEN /\ products' = [products EXCEPT ![i] = EditedProduct(@, f)]
                /\ storage' = SaveData(storage, products', sales)
                /\ currentEditId' = 0
                /\ Done("saveProduct", "edited")
           ELSE /\ products' = Append(products, AddedProduct(f, now))
                /\ storage' = SaveData(storage, products', sales)
                /\ currentEditId' = 0
                /\ Done("saveProduct", "added")
        /\ UNCHANGED <<cart, sales, discount, taxEnabled, users, currentUser,
                       isLoggedIn, listening, now, settings, loginListeners,
                       eventListeners, autoSaveTimers, returned>>

\* deleteProduct(productId): confirmed is the answer to the confirm dialog.
DeleteProduct(productId, confirmed) ==
    /\ listening
    /\ IF ~confirmed
       THEN /\ UNCHANGED <<products, cart, storage>>
            /\ Done("deleteProduct", "cancelled")
       ELSE /\ products' = WithoutId(products, productId)
            /\ cart' = WithoutId(cart, productId)
            /\ storage' = SaveData(storage, products', sales)
            /\ Done("deleteProduct", "ok")
    /\ UNCHANGED <<sales, discount, taxEnabled, currentEditId, users,
                   currentUser, isLoggedIn, listening, now, settings,
                   loginListeners, eventListeners, autoSaveTimers, returned>>

\* reorderProduct(productId, quantity)
ReorderProduct(productId, quantity) ==
    LET i == FindIndex(products, productId)
    IN  /\ listening
        /\ IF i = 0
           THEN /\ UNCHANGED <<products, storage>>
                /\ Done("reorderProduct", "noproduct")
           ELSE /\ products' = [products EXCEPT ![i].stock = @ + quantity]
                /\ storage' = SaveData(storage, products', sales)
                /\ Done("reorderProduct", "ok")
        /\ UNCHANGED <<cart, sales, discount, taxEnabled, currentEditId,
                       users, currentUser, isLoggedIn, listening, now,
                       settings, loginListeners, eventListeners,
                       autoSaveTimers, returned>>

----------------------------------------------------------------------------
\* Settings.

\* saveShopSettings(): this.settings.shop is assigned from the form before
\* the name is validated; the result is the returned boolean.
SaveShopSettings(form) ==
    /\ listening
    /\ settings' = [settings EXCEPT
                       !.shop = [name |-> form.name, address |-> form.address]]
    /\ IF form.name = ""
       THEN /\ UNCHANGED storage
            /\ Done("saveShopSettings", "false")
       ELSE /\ storage' = SaveSettings(storage, settings')
            /\ Done("saveShopSettings", "true")
    /\ UNCHANGED <<products, cart, sales, discount, taxEnabled, currentEditId,
                   users, currentUser, isLoggedIn, listening, now,
                   loginListeners, eventListeners, autoSaveTimers, returned>>

----------------------------------------------------------------------------
\* Session and users.

\* Mutant of HasPermission: a permission is granted to its own role only.
HasPermissionNoHierarchy(cu, permission) ==
    /\ cu # None
    /\ cu[1].role = permission

\* Mutant of HasPermission: every logged-in user holds every permission.
HasPermissionAnyUser(cu, permission) == cu # None

\* hasPermission(permission) for this.currentUser = cu.
HasPermission(cu, permission) ==
    IF cu = None THEN FALSE
    ELSE CASE permission = "admin" -> cu[1].role = "admin"
           [] permission = "manager" -> cu[1].role \in {"admin", "manager"}
           [] permission = "cashier" ->
                 cu[1].role \in {"admin", "manager", "cashier"}
           [] OTHER -> FALSE

\* Mutant of FindUser: the password is not compared.
FindUserByName(us, cred) ==
    LET Match(k) == /\ us[k].username = cred.username
                    /\ us[k].isActive
    IN  IF \E k \in 1..Len(us) : Match(k)
        THEN CHOOSE k \in 1..Len(us) :
                Match(k) /\ \A m \in 1..(k - 1) : ~Match(m)
        ELSE 0

\* this.users.find(u => u.username === username && u.password === password
\*                      && u.isActive), 1-based; 0 when absent.
FindUser(us, cred) ==
    LET Match(k) == /\ us[k].username = cred.username
                    /\ us[k].password = cred.password
                    /\ us[k].isActive
    IN  IF \E k \in 1..Len(us) : Match(k)
        THEN CHOOSE k \in 1..Len(us) :
                Match(k) /\ \A m \in 1..(k - 1) : ~Match(m)
        ELSE 0

\* The fields login() and the init() it runs read and write.
LoginState ==
    [products |-> products, sales |-> sales, users |-> users,
     currentUser |-> currentUser, isLoggedIn |-> isLoggedIn,
     listening |-> listening, storage |-> storage, settings |-> settings,
     loginListeners |-> loginListeners, eventListeners |-> eventListeners,
     autoSaveTimers |-> autoSaveTimers]

\* login(username, password) run on the fields s at time t. On success it
\* stores the session and runs init() again, which attaches one more login
\* listener, one more set of event listeners and one more autosave timer.
\* The found user object gets its lastLogin where it sits in this.users
\* (entry k), and is also assigned to the first entry with its id.
LoginOnce(s, cred, t) ==
    LET k == FindUser(s.users, cred)
        user == [s.users[k] EXCEPT !.lastLogin = Some(t)]
        users1 == [[s.users EXCEPT ![k] = user]
                      EXCEPT ![FindIndex(s.users, user.id)] = user]
        st1 == [SaveUsers(s.storage, users1) EXCEPT
                   !.currentUser = Some(user), !.loginTime = Some(t)]
        r == InitResult(s.products, s.sales, s.listening, st1, t)
    IN  IF k = 0 THEN s
        ELSE [products |-> r.products, sales |-> r.sales, users |-> r.users,
              currentUser |-> r.currentUser, isLoggedIn |-> r.isLoggedIn,
              listening |-> r.listening, storage |-> r.storage,
              settings |-> IF r.isLoggedIn
                           THEN LoadSettings(s.settings, r.storage)
                           ELSE s.settings,
              loginListeners |-> s.loginListeners + 1,
              eventListeners |-> IF r.isLoggedIn THEN s.eventListeners + 1
                                 ELSE s.eventListeners,
              autoSaveTimers |-> IF r.isLoggedIn THEN s.autoSaveTimers + 1
                                 ELSE s.autoSaveTimers]

\* login(username, password), called with the login modal showing.
Login(cred) ==
    LET s == LoginOnce(LoginState, cred, now)
    IN  /\ ~isLoggedIn
        /\ products' = s.products
        /\ sales' = s.sales
        /\ users' = s.users
        /\ currentUser' = s.currentUser
        /\ isLoggedIn' = s.isLoggedIn
        /\ listening' = s.listening
        /\ storage' = s.storage
        /\ settings' = s.settings
        /\ loginListeners' = s.loginListeners
        /\ eventListeners' = s.eventListeners
        /\ autoSaveTimers' = s.autoSaveTimers
        /\ Done("login", IF FindUser(users, cred) = 0 THEN "failed" ELSE "ok")
        /\ UNCHANGED <<cart, discount, taxEnabled, currentEditId, now,
                       returned>>

\* addUser's new record: the id is the clock reading.
NewUser(userData, t) ==
    [id |-> t, username |-> userData.username,
     password |-> userData.password, role |-> userData.role,
     isActive |-> TRUE, lastLogin |-> None]

\* addUser(userData); the result is the returned boolean.
AddUser(userData) ==
    /\ listening
    /\ IF ~HasPermission(currentUser, "admin")
       THEN /\ UNCHANGED <<users, storage>>
            /\ Done("addUser", "false")
       ELSE IF \E k \in 1..Len(users) :
                  users[k].username = userData.username
       THEN /\ UNCHANGED <<users, storage>>
            /\ Done("addUser", "false")
       ELSE /\ users' = Append(users, NewUser(userData, now))
            /\ storage' = SaveUsers(storage, users')
            /\ Done("addUser", "true")
    /\ UNCHANGED <<products, cart, sales, discount, taxEnabled, currentEditId,
                   currentUser, isLoggedIn, listening, now, settings,
                   loginListeners, eventListeners, autoSaveTimers, returned>>

\* updateUser(userId, userData): { ...this.users[userIndex], ...userData }.
UpdateUser(userId, userData) ==
    LET userIndex == FindIndex(users, userId)
    IN  /\ listening
        /\ IF ~HasPermission(currentUser, "admin")
           THEN /\ UNCHANGED <<users, storage>>
                /\ Done("updateUser", "false")
           ELSE IF userIndex = 0
           THEN /\ UNCHANGED <<users, storage>>
                /\ Done("updateUser", "false")
           ELSE IF \E k \in 1..Len(users) :
                      /\ users[k].id # userId
                      /\ users[k].username = userData.username
           THEN /\ UNCHANGED <<users, storage>>
                /\ Done("updateUser", "false")
           ELSE /\ users' = [users EXCEPT
                                ![userIndex].username = userData.username,
                                ![userIndex].password = userData.password,
                                ![userIndex].role = userData.role]
                /\ storage' = SaveUsers(storage, users')
                /\ Done("updateUser", "true")
        /\ UNCHANGED <<products, cart, sales, discount, taxEnabled,
                       currentEditId, currentUser, isLoggedIn, listening, now,
                       settings, loginListeners, eventListeners,
                       autoSaveTimers, returned>>

\* deleteUser(userId)
DeleteUser(userId) ==
    /\ listening
    /\ IF ~HasPermission(currentUser, "admin")
       THEN /\ UNCHANGED <<users, storage>>
            /\ Done("deleteUser", "false")
       ELSE IF currentUser[1].id = userId
       THEN /\ UNCHANGED <<users, storage>>
            /\ Done("deleteUser", "false")
       ELSE /\ users' = WithoutId(users, userId)
            /\ storage' = SaveUsers(storage, users')
            /\ Done("deleteUser", "true")
    /\ UNCHANGED <<products, cart, sales, discount, taxEnabled, currentEditId,
                   currentUser, isLoggedIn, listening, now, settings,
                   loginListeners, eventListeners, autoSaveTimers, returned>>

\* logout(), from the logout button.
Logout ==
    /\ listening
    /\ currentUser' = None
    /\ isLoggedIn' = FALSE
    /\ storage' = [storage EXCEPT !.currentUser = None, !.loginTime = None]
    /\ Done("logout", "ok")
    /\ UNCHANGED <<products, cart, sales, discount, taxEnabled, currentEditId,
                   users, listening, now, settings, loginListeners,
                   eventListeners, autoSaveTimers, returned>>

\* The 30-second autosave timer started by init(): saveAllData().
AutoSave ==
    /\ listening
    /\ storage' = SaveAllData(storage, products, sales, users, settings,
                              currentUser, now)
    /\ Done("autoSave", "ok")
    /\ UNCHANGED <<products, cart, sales, discount, taxEnabled, currentEditId,
                   users, currentUser, isLoggedIn, listening, now, settings,
                   loginListeners, eventListeners, autoSaveTimers, returned>>

\* The page is reloaded: the beforeunload handler (when attached) runs
\* saveAllData(), then a new RetailPOS is constructed over the same storage.
Reload ==
    LET st1 == IF listening
               THEN SaveAllData(storage, products, sales, users, settings,
                                currentUser, now)
               ELSE storage
        r == InitResult(<<>>, <<>>, FALSE, st1, now)
    IN  /\ products' = r.products
        /\ cart' = <<>>
        /\ sales' = r.sales
        /\ discount' = NoDiscount
        /\ taxEnabled' \in BOOLEAN
        /\ currentEditId' = 0
        /\ users' = r.users
        /\ currentUser' = r.currentUser
        /\ isLoggedIn' = r.isLoggedIn
        /\ listening' = r.listening
        /\ storage' = r.storage
        /\ settings' = IF r.isLoggedIn
                       THEN LoadSettings(DefaultSettings, r.storage)
                       ELSE DefaultSettings
        /\ loginListeners' = 1
        /\ eventListeners' = IF r.isLoggedIn THEN 1 ELSE 0
        /\ autoSaveTimers' = IF r.isLoggedIn THEN 1 ELSE 0
        /\ returned' = None
        /\ Done("constructor", IF r.isLoggedIn THEN "restored" ELSE "login")
        /\ UNCHANGED now

\* Time passes.
Tick ==
    /\ now' = now + 1
    /\ Done("tick", "ok")
    /\ UNCHANGED <<products, cart, sales, discount, taxEnabled, currentEditId,
                   users, currentUser, isLoggedIn, listening, storage,
                   settings, loginListeners, eventListeners, autoSaveTimers,
                   returned>>

\* The page stays closed or idle for the length of a session.
Sleep ==
    /\ now' = now + SessionHours * HourMs
    /\ Done("sleep", "ok")
    /\ UNCHANGED <<products, cart, sales, discount, taxEnabled, currentEditId,
                   users, currentUser, isLoggedIn, listening, storage,
                   settings, loginListeners, eventListeners, autoSaveTimers,
                   returned>>

----------------------------------------------------------------------------
\* Reports: transaction filter, inventory forecast, customer list.
\*
\* In the report specification text is a sequence of one-character strings,
\* so that toLowerCase(), includes() and the customer key are computed, and
\* the clock counts half seconds: TLC's integers cannot hold 120 days of
\* milliseconds, and half a second is enough to tell 23:59:59.000 from
\* 23:59:59.999. Local time is UTC. Days are counted from 1970-01-01 (a
\* Thursday); the calendar of the model has months of MonthDays days.

Second == 2                     \* clock units in a second
Day == 24 * 60 * 60 * Second    \* clock units in a day
MonthDays == 30

ToLowerChar(c) ==
    CASE c = "A" -> "a"
      [] c = "N" -> "n"
      [] OTHER -> c

\* String.prototype.toLowerCase
ToLowerCase(s) == [i \in 1..Len(s) |-> ToLowerChar(s[i])]

\* String.prototype.includes
Includes(s, sub) ==
    \E i \in 0..(Len(s) - Len(sub)) : SubSeq(s, i + 1, i + Len(sub)) = sub

Digit(d) ==
    CASE d = 0 -> "0" [] d = 1 -> "1" [] d = 2 -> "2" [] d = 3 -> "3"
      [] d = 4 -> "4" [] d = 5 -> "5" [] d = 6 -> "6" [] d = 7 -> "7"
      [] d = 8 -> "8" [] d = 9 -> "9"

RECURSIVE ToDigits(_)
\* Number.prototype.toString of a non-negative integer
ToDigits(n) ==
    IF n < 10 THEN << Digit(n) >>
    ELSE Append(ToDigits(n \div 10), Digit(n % 10))

\* new Date(y, m, d) of the day of t: local midnight.
DayStart(t) == (t \div Day) * Day

\* Date.prototype.getDay: 0 is Sunday.
GetDay(t) == ((t \div Day) + 4) % 7

\* new Date(y, m, 1) of the month of t.
MonthStart(t) == ((t \div Day) \div MonthDays) * MonthDays * Day

\* Offsets of 23:59:59.000 and of 23:59:59.999 (the last clock unit of the
\* day) from midnight.
LastSecond == (23 * 3600 + 59 * 60 + 59) * Second
LastInstant == Day - 1

\* Array.prototype.sort((a, b) => b[field] - a[field]): a stable sort, so an
\* element comes after the ones with a larger field and after the earlier
\* ones with an equal field.
SortDescBy(seq, field) ==
    LET Position(i) ==
            1 + Cardinality({j \in 1..Len(seq) :
                    \/ seq[j][field] > seq[i][field]
                    \/ seq[j][field] = seq[i][field] /\ j < i})
    IN  [k \in 1..Len(seq) |->
            seq[CHOOSE i \in 1..Len(seq) : Position(i) = k]]

\* The date range of the filter f at time t: None when no date filter
\* applies (startDate and endDate left undefined), else Some of the range.
FilterRange(f, t) ==
    CASE f.dateRange = "today" ->
            Some([startDate |-> DayStart(t),
                  endDate |-> DayStart(t) + LastSecond])
      [] f.dateRange = "week" ->
            LET startDate == DayStart(t) - GetDay(t) * Day
            IN  Some([startDate |-> startDate,
                      endDate |-> startDate + 6 * Day + LastInstant])
      [] f.dateRange = "month" ->
            Some([startDate |-> MonthStart(t),
                  endDate |-> MonthStart(t) + (MonthDays - 1) * Day
                                 + LastSecond])
      [] f.dateRange = "custom" ->
            IF f.startDate # None /\ f.endDate # None
            THEN Some([startDate |-> f.startDate[1] * Day,
                       endDate |-> f.endDate[1] * Day + LastInstant])
            ELSE None
      [] OTHER -> None

\* Mutant of GetFilteredSales: a custom range without its two dates starts
\* at the oldest sale, this.sales[0].date, which an empty ledger does not
\* have: the TypeError raised is the result.
GetFilteredSalesFromOldest(ss, f, t) ==
    LET searchTerm == ToLowerCase(f.search)
        Matches(sale) ==
            \/ Includes(ToLowerCase(sale.customer.name), searchTerm)
            \/ Includes(ToDigits(sale.id), searchTerm)
        searched == IF f.search # <<>> THEN SelectSeq(ss, Matches) ELSE ss
        range == FilterRange(f, t)
        InRange(sale) == /\ sale.date >= range[1].startDate
                         /\ sale.date <= range[1].endDate
        FromOldest(sale) == sale.date >= ss[1].date
    IN  IF f.dateRange = "custom" /\ range = None
        THEN IF ss = <<>> THEN << [error |-> "TypeError"] >>
             ELSE SortDescBy(SelectSeq(searched, FromOldest), "date")
        ELSE SortDescBy(IF f.dateRange # "all" /\ range # None
                        THEN SelectSeq(searched, InRange)
                        ELSE searched, "date")

\* getFilteredSales() with this.currentFilter = f at time t: its result.
GetFilteredSales(ss, f, t) ==
    LET searchTerm == ToLowerCase(f.search)
        Matches(sale) ==
            \/ Includes(ToLowerCase(sale.customer.name), searchTerm)
            \/ Includes(ToDigits(sale.id), searchTerm)
        searched == IF f.search # <<>> THEN SelectSeq(ss, Matches) ELSE ss
        range == FilterRange(f, t)
        InRange(sale) == /\ sale.date >= range[1].startDate
                         /\ sale.date <= range[1].endDate
        dated == IF f.dateRange # "all" /\ range # None
                 THEN SelectSeq(searched, InRange)
                 ELSE searched
    IN  SortDescBy(dated, "date")

\* Mutant of LedgerAfterGetFilteredSales: the sort runs on this.sales itself.
LedgerSortedInPlace(ss) == SortDescBy(ss, "date")

\* this.sales after getFilteredSales(): the method filters and sorts the
\* copy [...this.sales], so the ledger keeps its content and order.
LedgerAfterGetFilteredSales(ss) == ss

----------------------------------------------------------------------------
\* Inventory forecast. A velocity or a trend is the fraction [num, den];
\* Math.ceil is taken of the exact fraction, which is what the doubles of
\* the code give for totals below 12 units.

RECURSIVE TotalSold(_, _, _, _)
\* Units of productId in the sales dated in [from, to), each sale counted
\* through its first line with that id (items.find).
TotalSold(ss, productId, from, to) ==
    IF ss = <<>> THEN 0
    ELSE LET sale == Head(ss)
             j == FindIndex(sale.items, productId)
         IN  (IF sale.date >= from /\ sale.date < to /\ j # 0
              THEN sale.items[j].quantity ELSE 0)
               + TotalSold(Tail(ss), productId, from, to)

\* An instant after every sale date: the windows without an upper end.
Forever == 1000 * Day

\* Math.ceil(num / den), den > 0
Ceil(num, den) == 0 - ((0 - num) \div den)

\* getProductSalesVelocity(productId): totalSold / 30
GetProductSalesVelocity(ss, productId, t) ==
    [num |-> TotalSold(ss, productId, t - 30 * Day, Forever), den |-> 30]

\* calculateProductTrend(productId)
CalculateProductTrend(ss, productId, t) ==
    LET last60Days == t - 60 * Day
        prev60Days == last60Days - 60 * Day
        recentTotal == TotalSold(ss, productId, last60Days, Forever)
        oldTotal == TotalSold(ss, productId, prev60Days, last60Days)
    IN  IF oldTotal = 0
        THEN IF recentTotal > 0 THEN [num |-> 1, den |-> 2]
             ELSE [num |-> 0, den |-> 1]
        ELSE [num |-> recentTotal - oldTotal, den |-> oldTotal]

\* calculateDemandPredictions(): predictions[product.id]
DemandPrediction(ss, product, t) ==
    LET velocity == GetProductSalesVelocity(ss, product.id, t)
        trend == CalculateProductTrend(ss, product.id, t)
        \* velocity * (1 + trend)
        predicted == [num |-> velocity.num * (trend.den + trend.num),
                      den |-> velocity.den * trend.den]
    IN  [currentVelocity |-> velocity,
         predictedVelocity |-> predicted,
         recommendedStock |-> Ceil(predicted.num * 45, predicted.den)]

\* The entry calculateInventoryForecast maps a product to, before the
\* filter on reorderAmount.
ReorderSuggestion(ss, product, t) ==
    LET velocity == GetProductSalesVelocity(ss, product.id, t)
        suggestedStock == Ceil(velocity.num * 30, velocity.den)
        difference == suggestedStock - product.stock
    IN  [id |-> product.id, currentStock |-> product.stock,
         suggestedStock |-> suggestedStock,
         reorderAmount |-> IF difference > 0 THEN difference ELSE 0,
         velocity |-> velocity]

\* Mutant of ReorderSuggestions: products are not filtered on their velocity.
ReorderSuggestionsUnfiltered(ps, ss, t) ==
    LET suggestions == [i \in 1..Len(ps) |-> ReorderSuggestion(ss, ps[i], t)]
        Needed(item) == item.reorderAmount > 0
    IN  SortDescBy(SelectSeq(suggestions, Needed), "reorderAmount")

\* calculateInventoryForecast(): this.inventoryForecast.reorderSuggestions
ReorderSuggestions(ps, ss, t) ==
    LET Selling(product) ==
            GetProductSalesVelocity(ss, product.id, t).num > 0
        selling == SelectSeq(ps, Selling)
        suggestions ==
            [i \in 1..Len(selling) |-> ReorderSuggestion(ss, selling[i], t)]
        Needed(item) == item.reorderAmount > 0
    IN  SortDescBy(SelectSeq(suggestions, Needed), "reorderAmount")

\* calculateInventoryForecast(): reorderSuggestions and demandPredictions
\* (an object keyed by product id: a later product with the same id
\* overwrites an earlier one). lowStockAlerts and salesTrends are left out.
InventoryForecast(ps, ss, t) ==
    [reorderSuggestions |-> ReorderSuggestions(ps, ss, t),
     demandPredictions |->
        [id \in Ids(ps) |->
            LET i == CHOOSE k \in 1..Len(ps) :
                        /\ ps[k].id = id
                        /\ \A m \in (k + 1)..Len(ps) : ps[m].id # id
            IN  DemandPrediction(ss, ps[i], t)]]

----------------------------------------------------------------------------
\* Customers.

\* `${sale.customer.name}_${sale.customer.phone || ''}`
CustomerKey(customer) == customer.name \o << "_" >> \o customer.phone

\* One pass of processCustomerData's forEach: the entry under the sale's key
\* is created if absent, then updated. this.customers is the sequence of
\* entries in the order their keys were created.
AddCustomerSale(customers, sale) ==
    LET customerKey == CustomerKey(sale.customer)
        Keyed(k) == customers[k].key = customerKey
    IN  IF \E k \in 1..Len(customers) : Keyed(k)
        THEN LET k == CHOOSE k \in 1..Len(customers) : Keyed(k)
                 customer == customers[k]
             IN  [customers EXCEPT ![k] =
                    [customer EXCEPT
                       !.totalOrders = @ + 1,
                       !.totalSpent = @ + sale.total,
                       !.orders = Append(@, sale.id),
                       !.lastVisit = IF sale.date > @ THEN sale.date ELSE @,
                       !.firstVisit = IF sale.date < @ THEN sale.date ELSE @]]
        ELSE Append(customers,
                    [key |-> customerKey,
                     name |-> sale.customer.name,
                     phone |-> sale.customer.phone,
                     totalOrders |-> 1, totalSpent |-> sale.total,
                     orders |-> << sale.id >>,
                     lastVisit |-> sale.date, firstVisit |-> sale.date])

RECURSIVE ProcessCustomerData(_)
\* processCustomerData(): this.customers built from the ledger.
ProcessCustomerData(ss) ==
    IF ss = <<>> THEN <<>>
    ELSE AddCustomerSale(ProcessCustomerData(SubSeq(ss, 1, Len(ss) - 1)),
                         ss[Len(ss)])
----------------------------------------------------------------------------
Next ==
    \/ \E id \in Ids(products) : AddToCart(id)
    \/ \E id \in Ids(cart), change \in {1, 0 - 1} : UpdateQuantity(id, change)
    \/ \E id \in Ids(cart) : RemoveFromCart(id)
    \/ \E type \in DiscountTypes, v \in DiscountValueInputs :
          ApplyDiscount(type, v, "")
    \/ ToggleTax
    \/ \E customer \in Customers : Checkout(customer)
    \/ \E id \in Ids(products) \cup {0} : OpenProductModal(id)
    \/ CloseProductModal
    \/ \E f \in ProductForms : SaveProduct(f)
    \/ \E id \in Ids(products), confirmed \in BOOLEAN :
          DeleteProduct(id, confirmed)
    \/ \E id \in Ids(products), q \in ReorderQuantities :
          ReorderProduct(id, q)
    \/ \E cred \in Credentials : Login(cred)
    \/ Logout
    \/ AutoSave
    \/ Reload
    \/ Tick

Spec == Init /\ [][Next]_vars

\* The user-management and session part of the program: the methods that
\* read or write this.users, this.currentUser and the stored session, with
\* several users and a clock that can pass a whole session length.
UserNext ==
    \/ \E cred \in UserCredentials : Login(cred)
    \/ Logout
    \/ \E userData \in UserForms : AddUser(userData)
    \/ \E id \in Ids(users), userData \in UserForms : UpdateUser(id, userData)
    \/ \E id \in Ids(users) : DeleteUser(id)
    \/ AutoSave
    \/ Reload
    \/ Tick
    \/ Sleep

UserSpec == Init /\ [][UserNext]_vars

\* The forms that validate required fields, with the persistence around
\* them: the product form and the shop settings form.
FormNext ==
    \/ \E cred \in Credentials : Login(cred)
    \/ Logout
    \/ \E form \in ShopForms : SaveShopSettings(form)
    \/ \E id \in Ids(products) \cup {0} : OpenProductModal(id)
    \/ \E f \in ProductForms : SaveProduct(f)
    \/ AutoSave
    \/ Reload
    \/ Tick

FormSpec == Init /\ [][FormNext]_vars

\* The reports: the program with a catalog and a ledger built up earlier,
\* on which the transaction filter, the inventory forecast and the customer
\* list are computed. The ledger is any sequence of at most MaxLedger past
\* sales, oldest first.
MaxLedger == 2
ReportDay == 149    \* the day of the report clock

ReportNow == ReportDay * Day + LastInstant

\* Customer name and phone typed at checkout (free text, never validated).
ReportCustomers ==
    << [name |-> << "A", "n" >>, phone |-> <<>>],
       [name |-> << "a", "_" >>, phone |-> << "1" >>],
       [name |-> << "a" >>, phone |-> << "_", "1" >>] >>

\* The carts checked out: two laptops, three mice, one laptop.
ReportCarts ==
    << << [id |-> 1, name |-> "Laptop", price |-> 74999, quantity |-> 2] >>,
       << [id |-> 2, name |-> "Mouse", price |-> 2249, quantity |-> 3] >>,
       << [id |-> 1, name |-> "Laptop", price |-> 74999, quantity |-> 1] >> >>

\* Checkout times: the last instant of today, today's midnight, and 40, 100
\* and 125 days ago.
ReportTimes ==
    {ReportNow, ReportDay * Day, (ReportDay - 40) * Day,
     (ReportDay - 100) * Day, (ReportDay - 125) * Day}

ReportSales ==
    {NewSale(ReportCarts[k], NoDiscount, FALSE, ReportCustomers[k], t) :
        k \in 1..3, t \in ReportTimes}

ReportLedgers ==
    {l \in UNION {[1..n -> ReportSales] : n \in 0..MaxLedger} :
        \A i \in 1..(Len(l) - 1) : l[i].date <= l[i + 1].date}

\* The first two sample products; their stock after checkouts, reorders or
\* an edit through the product form, which accepts any number as stock.
ReportCatalogs ==
    {<< [id |-> 1, name |-> "Laptop", price |-> 74999, stock |-> 1],
        [id |-> 2, name |-> "Mouse", price |-> 2249, stock |-> 0 - 5] >>,
     << [id |-> 1, name |-> "Laptop", price |-> 74999, stock |-> 10],
        [id |-> 2, name |-> "Mouse", price |-> 2249, stock |-> 50] >>}

\* this.currentFilter as the filter controls can set it: the search text,
\* the selected range and, for a custom range, the two date fields (a day
\* number, or None while the field is empty).
ReportFilters ==
    {f \in [search : {<<>>, << "a", "N" >>, << "1" >>},
            dateRange : {"all", "today", "week", "month", "custom"},
            startDate : {None, Some(ReportDay - 40)},
            endDate : {None, Some(ReportDay)}] :
        f.dateRange # "custom" => f.startDate = None /\ f.endDate = None}

ReportInit ==
    /\ products \in ReportCatalogs
    /\ sales \in ReportLedgers
    /\ cart = <<>>
    /\ discount = NoDiscount
    /\ taxEnabled = FALSE
    /\ currentEditId = 0
    /\ users = << DefaultAdmin >>
    /\ currentUser = Some(DefaultAdmin)
    /\ isLoggedIn = TRUE
    /\ listening = TRUE
    /\ storage = [SaveUsers(SaveData(EmptyStorage, products, sales), users)
                     EXCEPT !.currentUser = currentUser,
                            !.loginTime = Some(ReportNow)]
    /\ settings = DefaultSettings
    /\ loginListeners = 2
    /\ eventListeners = 1
    /\ autoSaveTimers = 1
    /\ now = ReportNow
    /\ returned = None
    /\ steps = 0
    /\ lastOp = [op |-> "other", result |-> ""]

\* The report methods are queries: what they compute is kept in returned,
\* and they are not counted as steps. A behaviour makes one query: a query
\* reads nothing of returned and leaves the rest of the state as it was, so
\* a second one would start from the same catalog, ledger and clock.
CallGetFilteredSales(f) ==
    /\ listening
    /\ returned = None
    /\ returned' = Some([op |-> "getFilteredSales", filter |-> f,
                         value |-> GetFilteredSales(sales, f, now)])
    /\ sales' = LedgerAfterGetFilteredSales(sales)
    /\ UNCHANGED <<products, cart, discount, taxEnabled, currentEditId,
                   users, currentUser, isLoggedIn, listening, storage,
                   settings, loginListeners, eventListeners, autoSaveTimers,
                   now, steps, lastOp>>

CallCalculateInventoryForecast ==
    /\ listening
    /\ returned = None
    /\ returned' = Some([op |-> "calculateInventoryForecast",
                         value |-> InventoryForecast(products, sales, now)])
    /\ UNCHANGED <<products, cart, sales, discount, taxEnabled,
                   currentEditId, users, currentUser, isLoggedIn, listening,
                   storage, settings, loginListeners, eventListeners,
                   autoSaveTimers, now, steps, lastOp>>

CallProcessCustomerData ==
    /\ listening
    /\ returned = None
    /\ returned' = Some([op |-> "processCustomerData",
                         value |-> ProcessCustomerData(sales)])
    /\ UNCHANGED <<products, cart, sales, discount, taxEnabled,
                   currentEditId, users, currentUser, isLoggedIn, listening,
                   storage, settings, loginListeners, eventListeners,
                   autoSaveTimers, now, steps, lastOp>>

ReportNext ==
    \/ \E f \in ReportFilters : CallGetFilteredSales(f)
    \/ CallCalculateInventoryForecast
    \/ CallProcessCustomerData

ReportSpec == ReportInit /\ [][ReportNext]_vars

\* The UI events: a DOM event runs every listener attached for it, in the
\* order they were attached, and init() attaches a new set each time it runs.

\* addToCart(productId) on the catalog ps and the cart c: the cart it leaves.
CartAfterAddToCart(ps, c, productId) ==
    LET i == FindIndex(ps, productId)
        j == FindIndex(c, productId)
    IN  IF i = 0 \/ ps[i].stock = 0 THEN c
        ELSE IF j # 0
        THEN IF c[j].quantity >= ps[i].stock THEN c
             ELSE [c EXCEPT ![j].quantity = @ + 1]
        ELSE Append(c, [id |-> ps[i].id, name |-> ps[i].name,
                        price |-> ps[i].price, quantity |-> 1])

RECURSIVE ClickHandlers(_, _, _, _)
\* n listeners of the product list's click event run one after the other.
ClickHandlers(ps, c, productId, n) ==
    IF n = 0 THEN c
    ELSE ClickHandlers(ps, CartAfterAddToCart(ps, c, productId),
                       productId, n - 1)

RECURSIVE SubmitHandlers(_, _, _, _)
\* n listeners of the login form's submit event run one after the other
\* (the listeners a handler attaches do not run for the event in progress).
SubmitHandlers(s, cred, t, n) ==
    IF n = 0 THEN s
    ELSE SubmitHandlers(LoginOnce(s, cred, t), cred, t, n - 1)

\* A click on a product of the product list, with a user logged in.
ProductClick(productId) ==
    /\ listening
    /\ isLoggedIn
    /\ cart' = ClickHandlers(products, cart, productId, eventListeners)
    /\ returned' = Some([op |-> "productClick", calls |-> eventListeners])
    /\ Done("productClick", "ok")
    /\ UNCHANGED <<products, sales, discount, taxEnabled, currentEditId,
                   users, currentUser, isLoggedIn, listening, storage, now,
                   settings, loginListeners, eventListeners, autoSaveTimers>>

\* The login form is submitted, with the login modal showing.
LoginSubmit(cred) ==
    LET s == SubmitHandlers(LoginState, cred, now, loginListeners)
    IN  /\ ~isLoggedIn
        /\ products' = s.products
        /\ sales' = s.sales
        /\ users' = s.users
        /\ currentUser' = s.currentUser
        /\ isLoggedIn' = s.isLoggedIn
        /\ listening' = s.listening
        /\ storage' = s.storage
        /\ settings' = s.settings
        /\ loginListeners' = s.loginListeners
        /\ eventListeners' = s.eventListeners
        /\ autoSaveTimers' = s.autoSaveTimers
        /\ returned' = Some([op |-> "loginSubmit", calls |-> loginListeners])
        /\ Done("loginSubmit",
                IF FindUser(users, cred) = 0 THEN "failed" ELSE "ok")
        /\ UNCHANGED <<cart, discount, taxEnabled, currentEditId, now>>

EventNext ==
    \/ \E cred \in Credentials : LoginSubmit(cred)
    \/ \E id \in Ids(products) : ProductClick(id)
    \/ Logout
    \/ AutoSave
    \/ Reload
    \/ Tick

EventSpec == Init /\ [][EventNext]_vars


\* The cart summary: the program with a cart, a discount and a tax flag set
\* up earlier, on which the summary is displayed and the cart checked out.
MaxQuantity == 2    \* largest quantity of a cart line

\* Number.prototype.toFixed(2) of the amount x >= 0 (in thousandths): the
\* number of hundredths displayed, the nearest one, halves rounded up.
ToFixed2(x) == (x + 5) \div 10

\* Mutant of CartSummary: the tax is computed on the subtotal before the
\* discount.
CartSummaryTaxBeforeDiscount(c, d, enabled) ==
    LET subtotal == Subtotal(c)
        discountAmount ==
            IF d.value > 0
            THEN IF d.type = "percentage"
                 THEN (subtotal \div 100) * d.value
                 ELSE Min(d.value * Milli, subtotal)
            ELSE 0
        tax == IF enabled THEN subtotal \div 10 ELSE 0
    IN  [subtotal |-> ToFixed2(subtotal),
         discount |-> ToFixed2(discountAmount),
         tax |-> ToFixed2(tax),
         total |-> ToFixed2(subtotal - discountAmount + tax)]

\* updateCartSummary(): the four amounts it writes into the page.
CartSummary(c, d, enabled) ==
    LET subtotal == Subtotal(c)
        discountAmount ==
            IF d.value > 0
            THEN IF d.type = "percentage"
                 THEN (subtotal \div 100) * d.value
                 ELSE Min(d.value * Milli, subtotal)
            ELSE 0
        discountedSubtotal == subtotal - discountAmount
        tax == IF enabled THEN discountedSubtotal \div 10 ELSE 0
        total == discountedSubtotal + tax
    IN  [subtotal |-> ToFixed2(subtotal),
         discount |-> ToFixed2(discountAmount),
         tax |-> ToFixed2(tax),
         total |-> ToFixed2(total)]

\* The first two sample products.
SummaryCatalog ==
    << [id |-> 1, name |-> "Laptop", price |-> 74999, stock |-> 10],
       [id |-> 2, name |-> "Mouse", price |-> 2249, stock |-> 50] >>

\* The carts addToCart and updateQuantity build on that catalog.
SummaryCarts ==
    {SelectSeq(<< [id |-> 1, name |-> "Laptop", price |-> 74999,
                   quantity |-> q1],
                  [id |-> 2, name |-> "Mouse", price |-> 2249,
                   quantity |-> q2] >>,
               LAMBDA line : line.quantity > 0) :
        q1 \in 0..MaxQuantity, q2 \in 0..MaxQuantity}

\* The discounts applyDiscount accepts, and none.
SummaryDiscounts ==
    {NoDiscount} \cup
    [type : DiscountTypes, value : {15, 50, 100000}, code : {""}]

SummaryInit ==
    /\ products = SummaryCatalog
    /\ cart \in SummaryCarts
    /\ sales = <<>>
    /\ discount \in {d \in SummaryDiscounts :
                        d.type = "percentage" => d.value <= 100}
    /\ taxEnabled \in BOOLEAN
    /\ currentEditId = 0
    /\ users = << DefaultAdmin >>
    /\ currentUser = Some(DefaultAdmin)
    /\ isLoggedIn = TRUE
    /\ listening = TRUE
    /\ storage = [SaveUsers(SaveData(EmptyStorage, products, sales), users)
                     EXCEPT !.currentUser = currentUser,
                            !.loginTime = Some(Epoch)]
    /\ settings = DefaultSettings
    /\ loginListeners = 2
    /\ eventListeners = 1
    /\ autoSaveTimers = 1
    /\ now = Epoch
    /\ returned = None
    /\ steps = 0
    /\ lastOp = [op |-> "other", result |-> ""]

\* updateCartSummary(), a query: what it displays is kept in returned.
UpdateCartSummary ==
    /\ listening
    /\ returned' = Some([op |-> "updateCartSummary",
                         value |-> CartSummary(cart, discount, taxEnabled)])
    /\ UNCHANGED <<products, cart, sales, discount, taxEnabled,
                   currentEditId, users, currentUser, isLoggedIn, listening,
                   storage, settings, loginListeners, eventListeners,
                   autoSaveTimers, now, steps, lastOp>>

SummaryNext ==
    \/ UpdateCartSummary
    \/ \E customer \in Customers : Checkout(customer)
    \/ ToggleTax

SummarySpec == SummaryInit /\ [][SummaryNext]_vars

----------------------------------------------------------------------------
\* Properties.

IsPrefix(s, t) == Len(s) <= Len(t) /\ SubSeq(t, 1, Len(s)) = s

\* The step just taken is a call of checkout.
CheckoutStep == lastOp'.op = "checkout" /\ steps' = steps + 1

\* The quantity the cart holds of catalog entry i: the lines whose id
\* products.find() resolves to entry i.
RECURSIVE SumQuantity(_, _)
SumQuantity(c, S) ==
    IF S = {} THEN 0
    ELSE LET j == CHOOSE k \in S : TRUE
         IN  c[j].quantity + SumQuantity(c, S \ {j})

QuantityInCart(i) ==
    SumQuantity(cart, {j \in 1..Len(cart) :
                          FindIndex(products, cart[j].id) = i})

\* Some cart line asks for more than the live stock of its product.
Overdrawn ==
    \E j \in 1..Len(cart) :
        LET i == FindIndex(products, cart[j].id)
        IN  i # 0 /\ cart[j].quantity > products[i].stock

\* C1: in every reachable state every product's stock is >= 0.
StockNeverNegative ==
    \A i \in 1..Len(products) : products[i].stock >= 0

\* C2: in every reachable state each cart line's quantity is at most the
\* current stock of the product it references, also after saveProduct
\* edited that product's stock.
CartWithinStock ==
    \A j \in 1..Len(cart) :
        LET i == FindIndex(products, cart[j].id)
        IN  i # 0 /\ cart[j].quantity <= products[i].stock

\* C3: a checkout whose cart holds a line with quantity above the live stock
\* of its product is rejected entirely: no sale appended, no stock changed,
\* cart and discount kept.
CheckoutRejectsOverdrawnCart ==
    [][(CheckoutStep /\ Overdrawn)
          => UNCHANGED <<sales, products, cart, discount>>]_vars

\* C4: a successful checkout reduces the stock of each product in the cart
\* by exactly that line's quantity and changes nothing else of the catalog
\* (products not in the cart keep their stock).
CheckoutDecrementsExactly ==
    [][(CheckoutStep /\ cart # <<>>)
          => /\ Len(products') = Len(products)
             /\ \A i \in 1..Len(products) :
                   products'[i] =
                      [products[i] EXCEPT !.stock = @ - QuantityInCart(i)]]_vars

\* C4 witness: a checkout succeeded, selling one product of a catalog that
\* also holds a product the sale does not contain.
CheckoutDecrementsWitness ==
    /\ lastOp = [op |-> "checkout", result |-> "ok"]
    /\ \E i \in 1..Len(products) :
          products[i].id \in Ids(sales[Len(sales)].items)
    /\ \E i \in 1..Len(products) :
          products[i].id \notin Ids(sales[Len(sales)].items)

\* C5: checkout called with an empty cart changes nothing: ledger, catalog
\* (every stock), cart and discount are as before (and so is localStorage).
EmptyCheckoutChangesNothing ==
    [][(CheckoutStep /\ cart = <<>>)
          => UNCHANGED <<sales, products, cart, discount, storage>>]_vars

\* C5 witness: checkout was called on an empty cart, with a sale already in
\* the ledger and a discount set.
EmptyCheckoutWitness ==
    /\ lastOp = [op |-> "checkout", result |-> "empty"]
    /\ Len(sales) > 0
    /\ discount.value > 0

\* C6: a successful checkout appends exactly one sale at the end of the
\* ledger, whose items are the cart lines (id, name, price, quantity) held
\* just before; afterwards the cart is empty and the discount is reset to
\* percentage / 0 / empty code.
CheckoutAppendsSale ==
    [][(CheckoutStep /\ cart # <<>>)
          => /\ Len(sales') = Len(sales) + 1
             /\ SubSeq(sales', 1, Len(sales)) = sales
             /\ sales'[Len(sales')].items = cart
             /\ cart' = <<>>
             /\ discount' = [type |-> "percentage", value |-> 0,
                             code |-> ""]]_vars

\* C6 witness: a checkout of a two-line cart under a discount succeeded.
CheckoutAppendsWitness ==
    /\ lastOp = [op |-> "checkout", result |-> "ok"]
    /\ Len(sales[Len(sales)].items) = 2
    /\ sales[Len(sales)].discountValue > 0
    /\ cart = <<>>

\* The ledger as persisted under the key "sales".
StoredSales == IF storage.sales = None THEN <<>> ELSE storage.sales[1]

SaleIdsIncreasing ==
    \A a, b \in 1..Len(sales) : a < b => sales[a].id < sales[b].id

\* C9: product ids in the catalog are pairwise distinct.
ProductIdsDistinct ==
    \A a, b \in 1..Len(products) : a # b => products[a].id # products[b].id

\* C10: every sale in the ledger has total = (subtotal - discount) + tax
\* and total >= 0.
SaleTotalsSound ==
    \A k \in 1..Len(sales) :
        /\ sales[k].total = (sales[k].subtotal - sales[k].discount)
                               + sales[k].tax
        /\ sales[k].total >= 0

\* The sum of price * quantity over the first n cart lines, in currency units.
RECURSIVE SumLines(_, _)
SumLines(c, n) ==
    IF n = 0 THEN 0
    ELSE c[n].price * c[n].quantity + SumLines(c, n - 1)

\* C11: the discount amount checkout records is subtotal * value / 100 for a
\* percentage discount and min(value, subtotal) for a fixed one, where
\* subtotal is the sum of price * quantity over the cart lines; it is 0 when
\* the discount value is 0. (Amounts in thousandths: subtotal * value / 100
\* is units * value * 10.)
CheckoutDiscountAmount ==
    [][(CheckoutStep /\ cart # <<>>)
          => LET sale == sales'[Len(sales')]
                 units == SumLines(cart, Len(cart))
             IN  /\ sale.subtotal = units * Milli
                 /\ sale.discount =
                       IF discount.value = 0 THEN 0
                       ELSE IF discount.type = "percentage"
                       THEN units * discount.value * (Milli \div 100)
                       ELSE Min(discount.value * Milli, units * Milli)]_vars

\* C11 witness: a sale was recorded under a fixed discount larger than its
\* subtotal, which the discount amount was capped to.
CheckoutDiscountWitness ==
    /\ lastOp = [op |-> "checkout", result |-> "ok"]
    /\ LET sale == sales[Len(sales)]
       IN  /\ sale.discountType = "fixed"
           /\ sale.subtotal > 0
           /\ sale.discountValue * Milli > sale.subtotal
           /\ sale.discount = sale.subtotal

\* C12: tax is computed on the discounted subtotal only: 10% of
\* (subtotal - discount amount) with tax enabled, 0 with tax disabled, and
\* the total is the discounted subtotal plus the tax.
CheckoutTaxOnDiscounted ==
    [][(CheckoutStep /\ cart # <<>>)
          => LET sale == sales'[Len(sales')]
                 discounted == sale.subtotal - sale.discount
             IN  /\ taxEnabled => sale.tax * 10 = discounted
                 /\ ~taxEnabled => sale.tax = 0
                 /\ sale.total = discounted + sale.tax]_vars

\* C12 witness: a sale was recorded with a discount and with tax.
CheckoutTaxWitness ==
    /\ lastOp = [op |-> "checkout", result |-> "ok"]
    /\ sales[Len(sales)].discount > 0
    /\ sales[Len(sales)].tax > 0
    /\ sales[Len(sales)].tax * 10 < sales[Len(sales)].subtotal

\* The stored discount value is >= 0, and <= 100 for a percentage.
DiscountInRange ==
    /\ discount.value >= 0
    /\ discount.type = "percentage" => discount.value <= 100

\* A call of applyDiscount with a value <= 0, or with type percentage and a
\* value > 100, leaves this.discount as it was.
ApplyDiscountRejects ==
    \A type \in DiscountTypes, valueText \in DiscountValueInputs :
        LET value == IF valueText = "" THEN 0 ELSE ParseNumber(valueText)
        IN  (/\ ApplyDiscount(type, valueText, "")
             /\ (value <= 0 \/ (type = "percentage" /\ value > 100)))
               => discount' = discount

\* C13: applyDiscount with a value <= 0, or with type percentage and a
\* value > 100, is rejected and leaves the stored discount unchanged; and in
\* every reachable state the discount value is >= 0 and is <= 100 whenever
\* the type is percentage.
DiscountGuarded == []DiscountInRange /\ [][ApplyDiscountRejects]_vars

\* C13 witness: applyDiscount was called with a percentage above 100 while a
\* discount was stored, and the stored discount is still there.
ApplyDiscountRejectedWitness ==
    /\ lastOp = [op |-> "applyDiscount", result |-> "over100"]
    /\ discount.value > 0

\* No two cart lines carry the same product id, and every line has
\* quantity >= 1.
CartLinesWellFormed ==
    /\ \A a, b \in 1..Len(cart) : a # b => cart[a].id # cart[b].id
    /\ \A j \in 1..Len(cart) : cart[j].quantity >= 1

\* A call of updateQuantity that would bring a line to quantity 0 removes
\* the line.
UpdateQuantityRemoves ==
    \A id \in Ids(cart), change \in {1, 0 - 1} :
        (/\ UpdateQuantity(id, change)
         /\ cart[FindIndex(cart, id)].quantity + change = 0)
           => id \notin Ids(cart')

\* C14: each product has at most one line in the cart and every cart line
\* has quantity >= 1 in every reachable state; a line whose quantity would
\* reach 0 through updateQuantity is removed from the cart.
CartLinesGuarded == []CartLinesWellFormed /\ [][UpdateQuantityRemoves]_vars

\* C14 witness: updateQuantity brought one line of a two-line cart to 0 and
\* removed it; the other line is still in the cart.
UpdateQuantityRemovedWitness ==
    /\ lastOp = [op |-> "updateQuantity", result |-> "removed"]
    /\ Len(cart) = 1

\* C15: a cart line's price is the product's price at the moment the line
\* was first added: a line that enters the cart carries the price its
\* product has at that moment, a line that stays in the cart keeps its price
\* through every method call (saveProduct edits of the product, further
\* addToCart of the same product), and the sale checkout records carries
\* the lines' prices.
LinePriceSnapshot ==
    [][/\ \A j \in 1..Len(cart') :
             IF cart'[j].id \in Ids(cart)
             THEN cart'[j].price = cart[FindIndex(cart, cart'[j].id)].price
             ELSE LET i == FindIndex(products, cart'[j].id)
                  IN  i # 0 /\ cart'[j].price = products[i].price
       /\ (CheckoutStep /\ cart # <<>>)
             => LET items == sales'[Len(sales')].items
                IN  /\ Len(items) = Len(cart)
                    /\ \A j \in 1..Len(cart) :
                          /\ items[j].id = cart[j].id
                          /\ items[j].price = cart[j].price]_vars

\* C15 witness: a sale was recorded of a product whose price was edited
\* while it was in the cart: the sold price is not the catalog price.
LinePriceSnapshotWitness ==
    /\ lastOp = [op |-> "checkout", result |-> "ok"]
    /\ \E j \in 1..Len(sales[Len(sales)].items) :
          LET item == sales[Len(sales)].items[j]
              i == FindIndex(products, item.id)
          IN  i # 0 /\ products[i].price # item.price

\* C16: hasPermission grants 'admin' only to role admin, 'manager' only to
\* roles admin and manager, 'cashier' to roles admin, manager and cashier,
\* and returns false for every other permission string and whenever no user
\* is logged in.
PermissionHierarchy ==
    \A permission \in Permissions :
        HasPermission(currentUser, permission)
          <=> /\ currentUser # None
              /\ \/ /\ permission = "admin"
                    /\ currentUser[1].role = "admin"
                 \/ /\ permission = "manager"
                    /\ currentUser[1].role \in {"admin", "manager"}
                 \/ /\ permission = "cashier"
                    /\ currentUser[1].role \in {"admin", "manager", "cashier"}

\* C16 witness: a cashier is logged in, who holds the cashier permission
\* and neither of the other two.
PermissionHierarchyWitness ==
    /\ isLoggedIn
    /\ currentUser # None
    /\ currentUser[1].role = "cashier"
    /\ HasPermission(currentUser, "cashier")
    /\ ~HasPermission(currentUser, "manager")

\* The step just taken is a call of addUser, updateUser or deleteUser.
UserCrudStep ==
    /\ lastOp'.op \in {"addUser", "updateUser", "deleteUser"}
    /\ steps' = steps + 1

\* C17: with a current user of role cashier or manager, each of addUser,
\* updateUser and deleteUser returns false and leaves the users list (in
\* memory and as stored) unchanged.
NonAdminUserCrudDenied ==
    [][(/\ UserCrudStep
        /\ currentUser # None
        /\ currentUser[1].role \in {"cashier", "manager"})
          => /\ lastOp'.result = "false"
             /\ UNCHANGED <<users, storage>>]_vars

\* C17 witness: a cashier called deleteUser on another user's id; the call
\* returned false and the other user is still in the list.
NonAdminUserCrudWitness ==
    /\ lastOp = [op |-> "deleteUser", result |-> "false"]
    /\ currentUser # None
    /\ currentUser[1].role = "cashier"
    /\ Len(users) >= 2

\* C18: usernames in the users list are pairwise distinct in every state
\* reachable from the default admin user by addUser, updateUser, deleteUser
\* and login.
UsernamesDistinct ==
    \A a, b \in 1..Len(users) :
        a # b => users[a].username # users[b].username

\* C19: login(username, password) succeeds if and only if some user record
\* has exactly that username, exactly that password and isActive true; on
\* success currentUser is that user, isLoggedIn is true and the user's
\* lastLogin is updated (to the time of the call, in currentUser and in the
\* users list); on failure currentUser, isLoggedIn and the users list are
\* unchanged.
LoginIffMatch ==
    [][\A cred \in UserCredentials :
          Login(cred)
            => IF \E k \in 1..Len(users) :
                     /\ users[k].username = cred.username
                     /\ users[k].password = cred.password
                     /\ users[k].isActive
               THEN /\ isLoggedIn'
                    /\ currentUser' # None
                    /\ \E k \in 1..Len(users) :
                          /\ users[k].username = cred.username
                          /\ users[k].password = cred.password
                          /\ users[k].isActive
                          /\ currentUser'[1] =
                                [users[k] EXCEPT !.lastLogin = Some(now)]
                    /\ \E k \in 1..Len(users') : users'[k] = currentUser'[1]
               ELSE /\ ~isLoggedIn'
                    /\ UNCHANGED <<currentUser, isLoggedIn, users>>]_vars

\* C19 witness: a user created by addUser has just logged in.
LoginIffMatchWitness ==
    /\ isLoggedIn
    /\ currentUser # None
    /\ currentUser[1].id # 1
    /\ currentUser[1].lastLogin = Some(now)
    /\ \E k \in 1..Len(users) : users[k] = currentUser[1]

\* C20: a page load restores a persisted session only if fewer than 8 hours
\* have elapsed since the user logged in (otherwise the user is logged out),
\* also when the autosave timer and the before-unload save ran during the
\* session.
SessionRestoredWithinEightHours ==
    (lastOp.op = "constructor" /\ isLoggedIn)
       => now - currentUser[1].lastLogin[1] < SessionHours * HourMs

\* C21: an operation aborted because a required field is missing
\* (saveProduct with an empty name or category or a non-numeric price or
\* stock; saveShopSettings with an empty shop name) leaves the in-memory
\* products and settings exactly as they were before the call.
AbortedSaveChangesNothing ==
    [][/\ \A f \in ProductForms :
             (/\ SaveProduct(f)
              /\ \/ f.name = ""
                 \/ f.category = ""
                 \/ IsNaNText(f.price)
                 \/ IsNaNText(f.stock))
                => UNCHANGED <<products, settings>>
       /\ \A form \in ShopForms :
             (SaveShopSettings(form) /\ form.name = "")
                => UNCHANGED <<products, settings>>]_vars

----------------------------------------------------------------------------
\* Properties of the reports (ReportSpec).

Returned(op) == returned # None /\ returned[1].op = op

\* Units of productId sold in any forecast window: the windows reach back
\* 30, 60 and 120 days from now.
SoldInWindows(productId) ==
    TotalSold(sales, productId, now - 120 * Day, Forever)

\* C22: in a computed forecast, a product with no units sold in any forecast
\* window has velocity 0, trend 0 and recommendedStock 0, and has no entry in
\* reorderSuggestions.
UnsoldProductForecast ==
    Returned("calculateInventoryForecast") =>
        \A i \in 1..Len(products) :
            SoldInWindows(products[i].id) = 0 =>
                LET forecast == returned[1].value
                    prediction == forecast.demandPredictions[products[i].id]
                IN  /\ prediction.currentVelocity.num = 0
                    /\ CalculateProductTrend(sales, products[i].id, now).num = 0
                    /\ prediction.recommendedStock = 0
                    /\ \A k \in 1..Len(forecast.reorderSuggestions) :
                          forecast.reorderSuggestions[k].id # products[i].id

\* C22 witness: a forecast was computed over a ledger in which one product
\* sells and another, whose stock is below zero, was last sold before every
\* window.
UnsoldProductWitness ==
    /\ Returned("calculateInventoryForecast")
    /\ \E i, j \in 1..Len(products) :
          /\ SoldInWindows(products[i].id) = 0
          /\ products[i].stock < 0
          /\ TotalSold(sales, products[i].id, 0, Forever) > 0
          /\ SoldInWindows(products[j].id) > 0

\* ceil(30 x trailing-30-day velocity) of a product.
SuggestedStock(product) ==
    Ceil(30 * TotalSold(sales, product.id, now - 30 * Day, Forever), 30)

\* C23: reorderSuggestions has an entry for exactly the products whose
\* suggested stock exceeds their current stock, each entry's reorderAmount is
\* suggestedStock - stock > 0, and the entries are ordered by reorderAmount,
\* largest first.
ReorderSuggestionsExact ==
    Returned("calculateInventoryForecast") =>
        LET suggestions == returned[1].value.reorderSuggestions
        IN  /\ {suggestions[k].id : k \in 1..Len(suggestions)}
                  = {products[i].id : i \in
                        {i \in 1..Len(products) :
                            SuggestedStock(products[i]) > products[i].stock}}
            /\ \A k \in 1..Len(suggestions) :
                  /\ suggestions[k].reorderAmount > 0
                  /\ suggestions[k].reorderAmount =
                        suggestions[k].suggestedStock
                           - suggestions[k].currentStock
            /\ \A k \in 1..(Len(suggestions) - 1) :
                  suggestions[k].reorderAmount
                     >= suggestions[k + 1].reorderAmount

\* The date range the filter f selects at time t, each range running through
\* the end of its last day; None when no range is selected.
SelectedRange(f, t) ==
    CASE f.dateRange = "today" ->
            Some([startDate |-> DayStart(t), endDate |-> DayStart(t) + Day - 1])
      [] f.dateRange = "week" ->
            Some([startDate |-> DayStart(t) - GetDay(t) * Day,
                  endDate |-> DayStart(t) - GetDay(t) * Day + 7 * Day - 1])
      [] f.dateRange = "month" ->
            Some([startDate |-> MonthStart(t),
                  endDate |-> MonthStart(t) + MonthDays * Day - 1])
      [] f.dateRange = "custom" /\ f.startDate # None /\ f.endDate # None ->
            Some([startDate |-> f.startDate[1] * Day,
                  endDate |-> f.endDate[1] * Day + Day - 1])
      [] OTHER -> None

\* The sale is one the filter f selects at time t.
Selected(sale, f, t) ==
    /\ \/ Includes(ToLowerCase(sale.customer.name), ToLowerCase(f.search))
       \/ Includes(ToLowerCase(ToDigits(sale.id)), ToLowerCase(f.search))
    /\ SelectedRange(f, t) # None =>
          /\ sale.date >= SelectedRange(f, t)[1].startDate
          /\ sale.date <= SelectedRange(f, t)[1].endDate

Occurrences(seq, x) == Cardinality({i \in 1..Len(seq) : seq[i] = x})

\* C24: getFilteredSales returns exactly the sales of the ledger whose
\* customer name or sale id contains the search text, case-insensitively,
\* and whose timestamp lies in the selected date range (through the end of
\* its last day), ordered by timestamp, newest first.
FilteredSalesExact ==
    Returned("getFilteredSales") =>
        LET value == returned[1].value
            f == returned[1].filter
        IN  /\ \A i \in 1..Len(sales) :
                  Occurrences(value, sales[i]) =
                     IF Selected(sales[i], f, now)
                     THEN Occurrences(sales, sales[i]) ELSE 0
            /\ \A k \in 1..Len(value) : Occurrences(sales, value[k]) > 0
            /\ \A k \in 1..(Len(value) - 1) :
                  value[k].date >= value[k + 1].date

EmptyLedgerFiltersEmpty ==
    sales = <<>> =>
        /\ \A f \in ReportFilters : GetFilteredSales(sales, f, now) = <<>>
        /\ Returned("getFilteredSales") => returned[1].value = <<>>

\* C26 witness: the empty ledger was filtered with a search text and a custom
\* range that has no end date.
EmptyLedgerWitness ==
    /\ sales = <<>>
    /\ Returned("getFilteredSales")
    /\ returned[1].filter.search # <<>>
    /\ returned[1].filter.dateRange = "custom"
    /\ returned[1].filter.startDate # None
    /\ returned[1].filter.endDate = None

SameCustomer(a, b) ==
    a.customer.name = b.customer.name /\ a.customer.phone = b.customer.phone

\* C27: processCustomerData has one entry per distinct (name, phone) pair of
\* the ledger, and an entry's totalOrders is the number of sales with its
\* name and phone: two sales are grouped iff they agree on both.
CustomersGroupedByNameAndPhone ==
    Returned("processCustomerData") =>
        LET customers == returned[1].value
        IN  /\ Len(customers) =
                  Cardinality({<< sales[i].customer.name,
                                  sales[i].customer.phone >> :
                                  i \in 1..Len(sales)})
            /\ \A k \in 1..Len(customers) :
                  customers[k].totalOrders =
                     Cardinality({i \in 1..Len(sales) :
                        /\ sales[i].customer.name = customers[k].name
                        /\ sales[i].customer.phone = customers[k].phone})

----------------------------------------------------------------------------
\* Properties of the UI events (EventSpec).

RECURSIVE CartQuantity(_)
CartQuantity(c) ==
    IF c = <<>> THEN 0 ELSE Head(c).quantity + CartQuantity(Tail(c))

\* C28: whatever page loads, logins and logouts came before, at most one
\* autosave timer is active, a login-form submit calls login once, and a
\* product click calls addToCart once, so that the cart quantity rises by at
\* most 1.
HandlersRunOnce ==
    /\ [](autoSaveTimers <= 1)
    /\ [][/\ \A cred \in Credentials :
               LoginSubmit(cred) => returned'[1].calls = 1
          /\ \A id \in Ids(products) :
               ProductClick(id) =>
                  /\ returned'[1].calls = 1
                  /\ CartQuantity(cart') <= CartQuantity(cart) + 1]_vars

----------------------------------------------------------------------------
\* Stock conservation and the cart summary (Spec).

RECURSIVE LineQuantity(_, _)
\* The quantity of productId over the lines of one sale.
LineQuantity(items, productId) ==
    IF items = <<>> THEN 0
    ELSE (IF Head(items).id = productId THEN Head(items).quantity ELSE 0)
            + LineQuantity(Tail(items), productId)

RECURSIVE SoldQuantity(_, _)
\* The total quantity of productId over all sales of the ledger.
SoldQuantity(ss, productId) ==
    IF ss = <<>> THEN 0
    ELSE LineQuantity(Head(ss).items, productId)
            + SoldQuantity(Tail(ss), productId)

\* C29: stock is conserved. Step by step: a step that is neither a
\* saveProduct nor a deleteProduct leaves stock plus quantity sold of every
\* product of the catalog as it was, except that reorderProduct adds its
\* quantity to the product it reorders; so stock plus sold stays initial
\* stock plus reorders for a product never edited nor deleted.
StockConserved ==
    [][\/ \A i \in 1..Len(products) :
             (i <= Len(products') /\ products'[i].id = products[i].id) =>
                 \/ products'[i].stock
                       + SoldQuantity(sales', products[i].id)
                     = products[i].stock
                          + SoldQuantity(sales, products[i].id)
                 \/ \E q \in ReorderQuantities :
                       /\ ReorderProduct(products[i].id, q)
                       /\ FindIndex(products, products[i].id) = i
                       /\ products'[i].stock = products[i].stock + q
                       /\ sales' = sales
        \/ \E f \in ProductForms : SaveProduct(f)
        \/ \E id \in Ids(products) : DeleteProduct(id, TRUE)]_vars

\* The step is a checkout that recorded a sale while the summary of the
\* cart, discount and tax flag it started from was on display.
CheckoutOfDisplayedCart ==
    /\ lastOp' = [op |-> "checkout", result |-> "ok"]
    /\ Len(sales') = Len(sales) + 1
    /\ Returned("updateCartSummary")
    /\ returned[1].value = CartSummary(cart, discount, taxEnabled)

\* C30 as stated: the subtotal, discount, tax and total on display equal the
\* ones checkout records in the sale (amounts displayed in hundredths,
\* recorded in thousandths).
SummaryEqualsSale ==
    [][CheckoutOfDisplayedCart =>
          LET sale == sales'[Len(sales')]
              shown == returned[1].value
          IN  /\ shown.subtotal * 10 = sale.subtotal
              /\ shown.discount * 10 = sale.discount
              /\ shown.tax * 10 = sale.tax
              /\ shown.total * 10 = sale.total]_vars

\* C30, amended: the subtotal, discount, tax and total on display are the
\* ones checkout records in the sale, each rounded to two decimals.
SummaryShowsSaleRounded ==
    [][CheckoutOfDisplayedCart =>
          LET sale == sales'[Len(sales')]
              shown == returned[1].value
          IN  /\ shown.subtotal = ToFixed2(sale.subtotal)
              /\ shown.discount = ToFixed2(sale.discount)
              /\ shown.tax = ToFixed2(sale.tax)
              /\ shown.total = ToFixed2(sale.total)]_vars

\* C30 witness: a cart was checked out with a discount and tax whose
\* recorded tax has a third decimal, the summary on display before.
SummaryWitness ==
    /\ lastOp = [op |-> "checkout", result |-> "ok"]
    /\ Returned("updateCartSummary")
    /\ sales # <<>>
    /\ LET sale == sales[Len(sales)]
       IN  /\ sale.discount > 0
           /\ sale.tax % 10 # 0
           /\ returned[1].value.tax = ToFixed2(sale.tax)
           /\ returned[1].value.total = ToFixed2(sale.total)

====
